---- MODULE Spec2Model ----
(***************************************************************************)
(* Model of core/database/models/chatrooms.py: the read-only lookups of    *)
(* the Chatrooms model (search_agent_id, search_chatrooms_id,              *)
(* all_chat_room_list, recent_chatroom_list) over the tables chatrooms,    *)
(* apps, agents, chatroom_agent_relation and app_runs.                     *)
(*                                                                         *)
(* The tables are the state; no operation writes them.  Every operation    *)
(* is one action: it reads the tables, and leaves what the caller sees in  *)
(* op/args/outcome/error/ret, the number of round trips it issued in       *)
(* queries, and whether the data store raised during the call in dbRaised. *)
(* The operations keep no state between calls, so a behaviour is one call  *)
(* made on one content of the tables: op is "none" until the call is made. *)
(*                                                                         *)
(* Encodings: text is a sequence of one-character strings; SQL NULL text   *)
(* is NullText; Python None for a missing agent row is the record None.    *)
(***************************************************************************)
EXTENDS Integers, Sequences, FiniteSets, TLC

VARIABLES chatrooms, apps, agents, chatroom_agent_relation, app_runs,
          op, args, outcome, error, ret, queries, dbRaised

tables == <<chatrooms, apps, agents, chatroom_agent_relation, app_runs>>
vars == <<chatrooms, apps, agents, chatroom_agent_relation, app_runs,
          op, args, outcome, error, ret, queries, dbRaised>>

(***************************************************************************)
(* Bounds of the model.                                                    *)
(***************************************************************************)
NumRooms == 2
NumRecentRooms == 6
NumApps == 1
NumLinks == 2
MaxTime == 2
MaxPage == 2
MaxPageSize == 2

(***************************************************************************)
(* Constants of the program.                                               *)
(***************************************************************************)
StatusActive == 1
ChatroomMode == 5
RecentLimit == 5

(***************************************************************************)
(* Small helpers.                                                          *)
(***************************************************************************)
Max(a, b) == IF a >= b THEN a ELSE b
Min(a, b) == IF a <= b THEN a ELSE b
SetMax(S) == CHOOSE m \in S : \A x \in S : x <= m

NullText == <<>>
None == [null |-> TRUE, name |-> NullText, agent_id |-> 0, app_id |-> 0,
         obligations |-> NullText]
NoArgs == [page |-> 0, page_size |-> 0, uid |-> 0, name |-> NullText,
           chatroom_id |-> 0, agent_id |-> 0, fail |-> "never"]
NoRet == [status |-> -1]

(* ORDER BY id DESC over a set of integer keys. *)
RECURSIVE DescSeq(_)
DescSeq(S) == IF S = {} THEN <<>>
              ELSE LET m == SetMax(S) IN <<m>> \o DescSeq(S \ {m})

(* SQL LIKE: % matches any run of characters, _ any one character. *)
RECURSIVE Like(_, _)
Like(s, p) ==
    IF p = <<>> THEN s = <<>>
    ELSE IF Head(p) = "%"
         THEN Like(s, Tail(p)) \/ (s # <<>> /\ Like(Tail(s), p))
         ELSE /\ s # <<>>
              /\ (Head(p) = "_" \/ Head(p) = Head(s))
              /\ Like(Tail(s), Tail(p))

(* LIMIT/OFFSET over an ordered row sequence, for limit >= 0, offset >= 0. *)
LimitOffset(rows, limit, offset) ==
    IF offset >= Len(rows) THEN <<>>
    ELSE SubSeq(rows, offset + 1, Min(offset + limit, Len(rows)))

(* The round trip at which the data store raises, of the n a call makes:  *)
(* none of them, the first, or the last.                                   *)
FailModes == {"never", "first", "last"}
FailAt(fail, n) == IF fail = "first" THEN 1 ELSE IF fail = "last" THEN n ELSE 0

(***************************************************************************)
(* Argument domains.  User ids are only compared for equality: the caller  *)
(* and one other user.  Agent ids: negative, zero, the id of the agent     *)
(* row, and an id no agent row has; a link's agent id is the last two or   *)
(* one of the first two, by the link's position.                           *)
(***************************************************************************)
Users == {1, 2}
Pages == 0..MaxPage
PageSizes == (-1)..MaxPageSize
NameFilters == {<<>>, <<"a">>, <<"c">>}
AgentIdValues == {-1, 0, 1, 2}
LinkAgentIds(l) == {IF l % 2 = 1 THEN 0 ELSE -1, 1, 2}
OtherMode == 1

(***************************************************************************)
(* Table contents the model starts from.                                   *)
(***************************************************************************)
AppName(i) == IF i % 2 = 1 THEN <<"a", "b">> ELSE <<"b", "c">>

RoomRow(r, u, st, a) ==
    [id |-> r, user_id |-> u, status |-> st, app_id |-> a,
     max_round |-> 10 + r, smart_selection |-> r % 2,
     chat_status |-> 0, active |-> 1]

AppRow(i, st, md) ==
    [id |-> i, name |-> AppName(i), status |-> st, mode |-> md]

AgentRow(i) == [id |-> i, app_id |-> 1, obligations |-> <<"o">>]

(* Runs of every room at the times 1 .. lastT[room]. *)
RunsUpTo(lastT) ==
    {run \in [chatroom_id : DOMAIN lastT, created_time : 1..MaxTime] :
        run.created_time <= lastT[run.chatroom_id]}

GoodRooms == [r \in 1..NumRooms |-> RoomRow(r, 1, StatusActive, 1)]
GoodApps == [i \in 1..NumApps |-> AppRow(i, StatusActive, ChatroomMode)]
AllAgents == <<AgentRow(1)>>
FixedLinks ==
    [l \in 1..NumLinks |->
        [id |-> l, chatroom_id |-> ((l - 1) % NumRooms) + 1, agent_id |-> l - 1]]
FixedRuns == RunsUpTo([r \in 1..NumRooms |-> (r % MaxTime) + 1])

ResetResult ==
    /\ op = "none"
    /\ args = NoArgs
    /\ outcome = "none"
    /\ error = ""
    /\ ret = NoRet
    /\ queries = 0
    /\ dbRaised = FALSE

(* The rooms vary in owner and status. *)
InitOwners ==
    /\ \E u \in [1..NumRooms -> Users], st \in [1..NumRooms -> {0, StatusActive}] :
            chatrooms = [r \in 1..NumRooms |-> RoomRow(r, u[r], st[r], 1)]
    /\ apps = GoodApps
    /\ chatroom_agent_relation = FixedLinks

(* The applications vary in status and mode, the rooms in the application  *)
(* they name, which may have no row.                                       *)
InitApps ==
    /\ \E a \in [1..NumRooms -> 1..(NumApps + 1)] :
            chatrooms = [r \in 1..NumRooms |-> RoomRow(r, 1, StatusActive, a[r])]
    /\ \E st \in [1..NumApps -> {0, StatusActive}],
          md \in [1..NumApps -> {ChatroomMode, OtherMode}] :
            apps = [i \in 1..NumApps |-> AppRow(i, st[i], md[i])]
    /\ chatroom_agent_relation = FixedLinks

(* The room-agent links vary in room and agent id. *)
InitLinks ==
    /\ chatrooms = GoodRooms
    /\ apps = GoodApps
    /\ \E c \in [1..NumLinks -> 1..NumRooms],
          g \in [1..NumLinks -> AgentIdValues] :
            /\ \A l \in 1..NumLinks : g[l] \in LinkAgentIds(l)
            /\ chatroom_agent_relation =
                [l \in 1..NumLinks |->
                    [id |-> l, chatroom_id |-> c[l], agent_id |-> g[l]]]

Init ==
    /\ InitOwners \/ InitApps \/ InitLinks
    /\ agents = AllAgents
    /\ app_runs = FixedRuns
    /\ ResetResult

(***************************************************************************)
(* search_agent_id                                                         *)
(***************************************************************************)
AgentIdRow(agent_id) ==
    IF agent_id \in DOMAIN agents THEN [null |-> FALSE, id |-> agent_id]
    ELSE [null |-> TRUE, id |-> 0]

SearchAgentIdReturn(info) ==
    IF ~info.null THEN [status |-> 1] ELSE [status |-> 0]

SearchAgentId ==
    /\ op = "none"
    /\ \E agent_id \in AgentIdValues, fail \in FailModes :
        /\ op' = "search_agent_id"
        /\ args' = [NoArgs EXCEPT !.agent_id = agent_id, !.fail = fail]
        /\ queries' = 1
        /\ dbRaised' = (FailAt(fail, 1) = 1)
        /\ IF FailAt(fail, 1) = 1
           THEN outcome' = "raised" /\ error' = "db_error" /\ ret' = NoRet
           ELSE /\ outcome' = "ok"
                /\ error' = ""
                /\ ret' = SearchAgentIdReturn(AgentIdRow(agent_id))
        /\ UNCHANGED tables

(***************************************************************************)
(* search_chatrooms_id                                                     *)
(***************************************************************************)
SearchConditionsDropUser(room, chatroom_id, user_id) ==
    /\ room.id = chatroom_id
    /\ room.status = StatusActive

SearchConditions(room, chatroom_id, user_id) ==
    /\ room.id = chatroom_id
    /\ room.user_id = user_id
    /\ room.status = StatusActive

SearchChatroomsIdReturn(chatroom_id, user_id) ==
    LET found == {r \in DOMAIN chatrooms :
                    SearchConditions(chatrooms[r], chatroom_id, user_id)}
    IN IF found # {}
       THEN LET info == chatrooms[CHOOSE r \in found : TRUE]
            IN [status |-> 1, max_round |-> info.max_round,
                app_id |-> info.app_id, chatroom_status |-> info.status,
                smart_selection |-> info.smart_selection]
       ELSE [status |-> 0]

SearchChatroomsId ==
    /\ op = "none"
    /\ \E chatroom_id \in {0} \cup DOMAIN chatrooms, user_id \in Users,
       fail \in FailModes :
        /\ op' = "search_chatrooms_id"
        /\ args' = [NoArgs EXCEPT !.chatroom_id = chatroom_id,
                                  !.uid = user_id, !.fail = fail]
        /\ queries' = 1
        /\ dbRaised' = (FailAt(fail, 1) = 1)
        /\ IF FailAt(fail, 1) = 1
           THEN outcome' = "raised" /\ error' = "db_error" /\ ret' = NoRet
           ELSE /\ outcome' = "ok"
                /\ error' = ""
                /\ ret' = SearchChatroomsIdReturn(chatroom_id, user_id)
        /\ UNCHANGED tables

(***************************************************************************)
(* all_chat_room_list                                                      *)
(***************************************************************************)
(* LEFT JOIN apps ON chatrooms.app_id = apps.id: the application's row, or *)
(* a row of NULLs (numbers as NullInt) when no application has that id.    *)
NullInt == -1
JoinedApp(app_id) ==
    IF app_id \in DOMAIN apps THEN apps[app_id]
    ELSE [id |-> NullInt, name |-> NullText, status |-> NullInt, mode |-> NullInt]

NameCondition(app, name) ==
    name # <<>> => (app.id # NullInt /\ Like(app.name, <<"%">> \o name \o <<"%">>))

ListConditionsDropMode(room, uid, name) ==
    LET app == JoinedApp(room.app_id)
    IN /\ room.status = StatusActive
       /\ app.status = StatusActive
       /\ room.user_id = uid
       /\ NameCondition(app, name)

ListConditions(room, uid, name) ==
    LET app == JoinedApp(room.app_id)
    IN /\ room.status = StatusActive
       /\ app.status = StatusActive
       /\ app.mode = ChatroomMode
       /\ room.user_id = uid
       /\ NameCondition(app, name)

ListMatches(uid, name) ==
    {r \in DOMAIN chatrooms : ListConditions(chatrooms[r], uid, name)}

(* select_one(aggregates={"id": "count"}, ...)["count_id"] *)
TotalCount(uid, name) == Cardinality(ListMatches(uid, name))

OffsetOffByOne(page, page_size) == page * page_size

Offset(page, page_size) == (page - 1) * page_size

(* math.ceil(total_count / page_size), for page_size # 0. *)
CeilDiv(a, b) ==
    IF b > 0 THEN 0 - ((0 - a) \div b) ELSE 0 - (a \div (0 - b))

TotalPagesFloor(total_count, page_size) ==
    IF page_size > 0 THEN total_count \div page_size
    ELSE 0 - ((0 - total_count) \div (0 - page_size))

TotalPages(total_count, page_size) == CeilDiv(total_count, page_size)

(* The paginated select: order_by chatrooms.id DESC, limit, offset.  A     *)
(* limit or offset below zero is outside what the select is defined for;   *)
(* when the data store accepts it, it is taken as zero.                    *)
InSelectContract(limit, offset) == limit >= 1 /\ offset >= 0

RoomOrder(S) == DescSeq(S)

ListPage(uid, name, limit, offset) ==
    LimitOffset(RoomOrder(ListMatches(uid, name)), Max(limit, 0), Max(offset, 0))

(* ChatroomAgentRelation().select(conditions chatroom_id, order_by id DESC) *)
RECURSIVE RelationOrderAsc(_)
RelationOrderAsc(S) ==
    IF S = {} THEN <<>>
    ELSE LET m == CHOOSE x \in S : \A y \in S : x <= y
         IN <<m>> \o RelationOrderAsc(S \ {m})

RelationOrder(S) == DescSeq(S)

AgentLinks(chatroom_id) ==
    LET ids == RelationOrder({l \in DOMAIN chatroom_agent_relation :
                    chatroom_agent_relation[l].chatroom_id = chatroom_id})
    IN [k \in 1..Len(ids) |->
           [agent_id |-> chatroom_agent_relation[ids[k]].agent_id,
            chatroom_id |-> chatroom_agent_relation[ids[k]].chatroom_id]]

(* Agents().select_one(... conditions id = agent_id, left join apps) *)
AgentsSelectOne(agent_id) ==
    IF agent_id \in DOMAIN agents
    THEN LET ag == agents[agent_id]
         IN [null |-> FALSE, name |-> JoinedApp(ag.app_id).name,
             agent_id |-> ag.id, app_id |-> ag.app_id,
             obligations |-> ag.obligations]
    ELSE None

LinkIsHydratedNonNegative(agent_item) == agent_item.agent_id >= 0

LinkIsHydrated(agent_item) == agent_item.agent_id > 0

AppendAgentSkipNone(agent_list, info) ==
    IF info.null THEN agent_list ELSE Append(agent_list, info)

AppendAgent(agent_list, info) == Append(agent_list, info)

RECURSIVE HydrateAgents(_, _)
HydrateAgents(agent_list, acc) ==
    IF agent_list = <<>> THEN acc
    ELSE HydrateAgents(Tail(agent_list),
            IF LinkIsHydrated(Head(agent_list))
            THEN AppendAgent(acc, AgentsSelectOne(Head(agent_list).agent_id))
            ELSE acc)

ChatItem(r) ==
    LET room == chatrooms[r]
        app == JoinedApp(room.app_id)
    IN [name |-> app.name, chatroom_id |-> room.id,
        chat_status |-> room.chat_status, active |-> room.active,
        chatroom_status |-> room.status,
        smart_selection |-> room.smart_selection, app_id |-> app.id,
        agent_list |-> HydrateAgents(AgentLinks(room.id), <<>>)]

(* Round trips of the hydration loop: one link select per row, one agent   *)
(* select per hydrated link.                                               *)
RECURSIVE HydrationQueries(_)
HydrationQueries(rows) ==
    IF rows = <<>> THEN 0
    ELSE 1 + Cardinality({k \in DOMAIN AgentLinks(Head(rows)) :
                             LinkIsHydrated(AgentLinks(Head(rows))[k])})
           + HydrationQueries(Tail(rows))

Raised(kind, n, db) ==
    [outcome |-> "raised", error |-> kind, ret |-> NoRet, queries |-> n,
     dbRaised |-> db]

Returned(value, n) ==
    [outcome |-> "ok", error |-> "", ret |-> value, queries |-> n,
     dbRaised |-> FALSE]

AllChatRoomListRun(page, page_size, uid, name, fail, rejected) ==
    LET total_count == TotalCount(uid, name)
        rows == ListPage(uid, name, page_size, Offset(page, page_size))
        list == [k \in 1..Len(rows) |-> ChatItem(rows[k])]
        n == 2 + HydrationQueries(rows)
    IN IF FailAt(fail, n) = 1 THEN Raised("db_error", 1, TRUE)
       ELSE IF rejected THEN Raised("db_error", 2, TRUE)
       ELSE IF FailAt(fail, n) = n THEN Raised("db_error", n, TRUE)
       ELSE IF page_size = 0 THEN Raised("ZeroDivisionError", n, FALSE)
       ELSE Returned([list |-> list, total_count |-> total_count,
                      total_pages |-> TotalPages(total_count, page_size),
                      page |-> page, page_size |-> page_size], n)

AllChatRoomList ==
    /\ op = "none"
    /\ \E page \in Pages, page_size \in PageSizes, uid \in Users,
       name \in NameFilters, fail \in FailModes, rejected \in BOOLEAN :
        /\ rejected => (fail = "never" /\ ~InSelectContract(page_size, Offset(page, page_size)))
        /\ LET run == AllChatRoomListRun(page, page_size, uid, name, fail, rejected)
           IN /\ op' = "all_chat_room_list"
              /\ args' = [NoArgs EXCEPT !.page = page, !.page_size = page_size,
                                        !.uid = uid, !.name = name,
                                        !.fail = fail]
              /\ outcome' = run.outcome
              /\ error' = run.error
              /\ ret' = run.ret
              /\ queries' = run.queries
              /\ dbRaised' = run.dbRaised
        /\ UNCHANGED tables

(***************************************************************************)
(* recent_chatroom_list                                                    *)
(***************************************************************************)
(* SELECT chatroom_id, MAX(created_time) FROM app_runs GROUP BY chatroom_id *)
RunRooms == {run.chatroom_id : run \in app_runs}

LastRunTime(chatroom_id) ==
    SetMax({run.created_time : run \in {x \in app_runs : x.chatroom_id = chatroom_id}})

RecentWhereKeepExcluded(room, app, uid, chatroom_id) ==
    /\ room.status = StatusActive
    /\ app.status = StatusActive
    /\ app.mode = ChatroomMode
    /\ room.user_id = uid

RecentWhere(room, app, uid, chatroom_id) ==
    /\ room.status = StatusActive
    /\ app.status = StatusActive
    /\ app.mode = ChatroomMode
    /\ room.user_id = uid
    /\ room.id # chatroom_id

(* chatrooms INNER JOIN apps INNER JOIN last_runs WHERE ... *)
RecentMatches(uid, chatroom_id) ==
    {r \in DOMAIN chatrooms :
        /\ chatrooms[r].app_id \in DOMAIN apps
        /\ r \in RunRooms
        /\ RecentWhere(chatrooms[r], apps[chatrooms[r].app_id], uid, chatroom_id)}

(* ORDER BY last_run_time DESC LIMIT k: every order the data store may     *)
(* give rows of equal last_run_time, cut to the first k.                   *)
RECURSIVE RecentOrders(_, _)
RecentOrders(S, k) ==
    IF S = {} \/ k <= 0 THEN {<<>>}
    ELSE LET top == SetMax({LastRunTime(r) : r \in S})
         IN UNION {{<<r>> \o rest : rest \in RecentOrders(S \ {r}, k - 1)} :
                      r \in {x \in S : LastRunTime(x) = top}}

(* ChatroomAgentRelation().show_chatroom_agent(chatroom_id) *)
ShowChatroomAgent(chatroom_id) ==
    LET links == AgentLinks(chatroom_id)
    IN [k \in 1..Len(links) |-> links[k].agent_id]

RecentItem(r) ==
    LET room == chatrooms[r]
        app == apps[room.app_id]
    IN [name |-> app.name, chatroom_id |-> room.id, active |-> room.active,
        app_id |-> app.id, agent_list |-> ShowChatroomAgent(room.id)]

RecentChatroomListRun(rows, fail) ==
    LET n == 1 + Len(rows)
    IN IF FailAt(fail, n) >= 1
       THEN [outcome |-> "ok", error |-> "", ret |-> [list |-> <<>>],
             queries |-> FailAt(fail, n), dbRaised |-> TRUE]
       ELSE Returned([list |-> [k \in 1..Len(rows) |-> RecentItem(rows[k])]], n)

RecentChatroomList ==
    /\ op = "none"
    /\ \E chatroom_id \in {0} \cup DOMAIN chatrooms, uid \in Users,
       fail \in FailModes :
      \E rows \in IF fail = "first" THEN {<<>>}
                  ELSE RecentOrders(RecentMatches(uid, chatroom_id), RecentLimit) :
        /\ LET run == RecentChatroomListRun(rows, fail)
           IN /\ op' = "recent_chatroom_list"
              /\ args' = [NoArgs EXCEPT !.chatroom_id = chatroom_id,
                                        !.uid = uid, !.fail = fail]
              /\ outcome' = run.outcome
              /\ error' = run.error
              /\ ret' = run.ret
              /\ queries' = run.queries
              /\ dbRaised' = run.dbRaised
        /\ UNCHANGED tables

Next ==
    \/ SearchAgentId
    \/ SearchChatroomsId
    \/ AllChatRoomList
    \/ RecentChatroomList

Spec == Init /\ [][Next]_vars

(***************************************************************************)
(* The recent list on enough rooms for the cap to matter.  Any set of the  *)
(* rooms is listable by user 1; each other room fails the query in one     *)
(* way, by its position in the table from a varying start: another owner,  *)
(* an inactive room, an inactive application, an application of another    *)
(* mode, no application row, or no run at all.  The last run times go      *)
(* round 1..MaxTime from a varying start, so that rooms tie and room ids   *)
(* do not follow the times.                                                *)
(***************************************************************************)
BadKinds == <<"user", "status", "app_status", "app_mode", "app_missing", "no_runs">>

BadKindOf(r, k) == BadKinds[((r - 1 + k) % Len(BadKinds)) + 1]

RecentApps ==
    <<AppRow(1, StatusActive, ChatroomMode), AppRow(2, 0, ChatroomMode),
      AppRow(3, StatusActive, OtherMode)>>

RecentRoom(r, good, k) ==
    LET bad == BadKindOf(r, k)
    IN IF good THEN RoomRow(r, 1, StatusActive, 1)
       ELSE RoomRow(r, IF bad = "user" THEN 2 ELSE 1,
                    IF bad = "status" THEN 0 ELSE StatusActive,
                    IF bad = "app_status" THEN 2
                    ELSE IF bad = "app_mode" THEN 3
                    ELSE IF bad = "app_missing" THEN 4 ELSE 1)

InitRecent ==
    /\ \E good \in SUBSET (1..NumRecentRooms), shift \in 0..(MaxTime - 1),
          k \in 0..(Len(BadKinds) - 1) :
        /\ chatrooms = [r \in 1..NumRecentRooms |-> RecentRoom(r, r \in good, k)]
        /\ app_runs = RunsUpTo([r \in 1..NumRecentRooms |->
                          IF r \notin good /\ BadKindOf(r, k) = "no_runs" THEN 0
                          ELSE ((r - 1 + shift) % MaxTime) + 1])
    /\ apps = RecentApps
    /\ agents = AllAgents
    /\ chatroom_agent_relation = FixedLinks
    /\ ResetResult

NextRecent == RecentChatroomList

SpecRecent == InitRecent /\ [][NextRecent]_vars

(***************************************************************************)
(* Properties.                                                             *)
(***************************************************************************)
ValidPaging == args.page >= 1 /\ args.page_size >= 1

(* C1: every room all_chat_room_list returns belongs to the uid argument,  *)
(* is active, and has an existing, active application of mode 5, whatever  *)
(* the table contents and the arguments.                                   *)
C1_ListedRoomsVisible ==
    (op = "all_chat_room_list" /\ outcome = "ok") =>
        \A i \in DOMAIN ret.list :
            LET r == ret.list[i].chatroom_id
            IN /\ r \in DOMAIN chatrooms
               /\ chatrooms[r].user_id = args.uid
               /\ chatrooms[r].status = 1
               /\ chatrooms[r].app_id \in DOMAIN apps
               /\ apps[chatrooms[r].app_id].status = 1
               /\ apps[chatrooms[r].app_id].mode = 5

(* An active room of the caller whose active application has another mode  *)
(* was left out of a returned list.                                        *)
C1_Witness ==
    /\ op = "all_chat_room_list" /\ outcome = "ok" /\ ValidPaging
    /\ args.name = <<>>
    /\ \E r \in DOMAIN chatrooms :
        /\ chatrooms[r].user_id = args.uid
        /\ chatrooms[r].status = 1
        /\ chatrooms[r].app_id \in DOMAIN apps
        /\ apps[chatrooms[r].app_id].status = 1
        /\ apps[chatrooms[r].app_id].mode # 5
        /\ \A i \in DOMAIN ret.list : ret.list[i].chatroom_id # r

(* C2: for page >= 1 and page_size >= 1 the returned total_pages is the    *)
(* ceiling of total_count / page_size, the least n with n * page_size >=   *)
(* total_count, where total_count is the number of rooms matching the      *)
(* conditions; a total_count of 0 gives 0 pages.                           *)
C2_TotalPagesIsCeiling ==
    (op = "all_chat_room_list" /\ outcome = "ok" /\ ValidPaging) =>
        /\ ret.total_count = Cardinality(ListMatches(args.uid, args.name))
        /\ ret.total_pages * args.page_size >= ret.total_count
        /\ (ret.total_pages - 1) * args.page_size < ret.total_count
        /\ (ret.total_count = 0 => ret.total_pages = 0)

(* A count that the page size does not divide was rounded up. *)
C2_Witness ==
    /\ op = "all_chat_room_list" /\ outcome = "ok" /\ ValidPaging
    /\ ret.total_count = 1 /\ args.page_size = 2 /\ ret.total_pages = 1

(* C3: in every returned page the rooms are in strictly descending id      *)
(* order, and in each room's agent_list the k-th entry, when it is an      *)
(* agent record, is the agent of the room's k-th hydrated link counted     *)
(* from the highest link id downwards.                                     *)
C3_DescendingOrder ==
    (op = "all_chat_room_list" /\ outcome = "ok") =>
        /\ \A i, j \in DOMAIN ret.list :
              i < j => ret.list[i].chatroom_id > ret.list[j].chatroom_id
        /\ \A i \in DOMAIN ret.list :
              LET P == {l \in DOMAIN chatroom_agent_relation :
                          /\ chatroom_agent_relation[l].chatroom_id = ret.list[i].chatroom_id
                          /\ chatroom_agent_relation[l].agent_id > 0}
              IN \A k \in DOMAIN ret.list[i].agent_list :
                    \A l \in P :
                        Cardinality({m \in P : m > l}) = k - 1 =>
                            \/ ret.list[i].agent_list[k].null
                            \/ ret.list[i].agent_list[k].agent_id =
                                   chatroom_agent_relation[l].agent_id

(* Two rooms were returned, one of them with two hydrated links to         *)
(* different agents, the first entry being an agent record.                *)
C3_Witness ==
    /\ op = "all_chat_room_list" /\ outcome = "ok"
    /\ Len(ret.list) >= 2
    /\ \E i \in DOMAIN ret.list :
        /\ Len(ret.list[i].agent_list) >= 2
        /\ \E k \in DOMAIN ret.list[i].agent_list : ~ret.list[i].agent_list[k].null
        /\ \E l, m \in DOMAIN chatroom_agent_relation :
            /\ chatroom_agent_relation[l].chatroom_id = ret.list[i].chatroom_id
            /\ chatroom_agent_relation[m].chatroom_id = ret.list[i].chatroom_id
            /\ chatroom_agent_relation[l].agent_id > 0
            /\ chatroom_agent_relation[m].agent_id > 0
            /\ chatroom_agent_relation[l].agent_id # chatroom_agent_relation[m].agent_id

(* C4: a link whose agent id is zero or negative adds nothing to the       *)
(* room's agent_list and raises nothing: with valid paging and a working   *)
(* data store the call returns, each agent_list is as long as the room's   *)
(* links less those with a non-positive agent id, and no entry is a        *)
(* record of a non-positive agent id.                                      *)
C4_NonPositiveLinksSkipped ==
    (op = "all_chat_room_list" /\ ValidPaging /\ ~dbRaised) =>
        /\ outcome = "ok"
        /\ \A i \in DOMAIN ret.list :
              LET links == {l \in DOMAIN chatroom_agent_relation :
                              chatroom_agent_relation[l].chatroom_id =
                                  ret.list[i].chatroom_id}
                  nonpos == {l \in links : chatroom_agent_relation[l].agent_id <= 0}
              IN /\ Len(ret.list[i].agent_list) + Cardinality(nonpos) =
                        Cardinality(links)
                 /\ \A k \in DOMAIN ret.list[i].agent_list :
                        \/ ret.list[i].agent_list[k].null
                        \/ ret.list[i].agent_list[k].agent_id > 0

(* A returned room has one link with a non-positive agent id and one with  *)
(* a positive one, and its agent_list has exactly one entry.               *)
C4_Witness ==
    /\ op = "all_chat_room_list" /\ outcome = "ok"
    /\ \E i \in DOMAIN ret.list :
        /\ Len(ret.list[i].agent_list) = 1
        /\ \E l, m \in DOMAIN chatroom_agent_relation :
            /\ chatroom_agent_relation[l].chatroom_id = ret.list[i].chatroom_id
            /\ chatroom_agent_relation[m].chatroom_id = ret.list[i].chatroom_id
            /\ chatroom_agent_relation[l].agent_id <= 0
            /\ chatroom_agent_relation[m].agent_id > 0

(* C5: with a working data store search_chatrooms_id returns; it returns   *)
(* {status: 0} when no room has the given id, the given owner and active   *)
(* status, and otherwise status 1 with that room's max_round, app_id,      *)
(* status and smart_selection.                                             *)
C5_RoomLookup ==
    (op = "search_chatrooms_id" /\ ~dbRaised) =>
        /\ outcome = "ok"
        /\ LET m == {r \in DOMAIN chatrooms :
                        /\ chatrooms[r].id = args.chatroom_id
                        /\ chatrooms[r].user_id = args.uid
                        /\ chatrooms[r].status = 1}
           IN IF m = {} THEN ret = [status |-> 0]
              ELSE \A r \in m :
                     ret = [status |-> 1,
                            max_round |-> chatrooms[r].max_round,
                            app_id |-> chatrooms[r].app_id,
                            chatroom_status |-> chatrooms[r].status,
                            smart_selection |-> chatrooms[r].smart_selection]

(* An active room of another user was looked up and not found. *)
C5_Witness ==
    /\ op = "search_chatrooms_id" /\ outcome = "ok"
    /\ ret = [status |-> 0]
    /\ args.chatroom_id \in DOMAIN chatrooms
    /\ chatrooms[args.chatroom_id].status = 1
    /\ chatrooms[args.chatroom_id].user_id # args.uid

(* C6: recent_chatroom_list returns at most 5 rooms, never the room given  *)
(* as chatroom_id, each active, owned by uid, with an active application   *)
(* of mode 5 and at least one run, in an order in which no room has a      *)
(* later last run than a room before it.                                   *)
C6_RecentList ==
    (op = "recent_chatroom_list" /\ outcome = "ok") =>
        /\ Len(ret.list) <= 5
        /\ \A i \in DOMAIN ret.list :
              LET r == ret.list[i].chatroom_id
              IN /\ r # args.chatroom_id
                 /\ r \in DOMAIN chatrooms
                 /\ chatrooms[r].user_id = args.uid
                 /\ chatrooms[r].status = 1
                 /\ chatrooms[r].app_id \in DOMAIN apps
                 /\ apps[chatrooms[r].app_id].status = 1
                 /\ apps[chatrooms[r].app_id].mode = 5
                 /\ \E run \in app_runs : run.chatroom_id = r
        /\ \A i, j \in DOMAIN ret.list :
              i < j =>
                \A later \in app_runs :
                    later.chatroom_id = ret.list[j].chatroom_id =>
                        \E run \in app_runs :
                            /\ run.chatroom_id = ret.list[i].chatroom_id
                            /\ run.created_time >= later.created_time

(* More than 5 rooms qualified and 5 came back, with last run times that   *)
(* differ.                                                                 *)
C6_Witness ==
    /\ op = "recent_chatroom_list" /\ outcome = "ok" /\ ~dbRaised
    /\ Cardinality(RecentMatches(args.uid, args.chatroom_id)) > 5
    /\ Len(ret.list) = 5
    /\ LastRunTime(ret.list[1].chatroom_id) > LastRunTime(ret.list[5].chatroom_id)

(* C7: when the data store raises during recent_chatroom_list the caller   *)
(* gets a failure, never the successful result with an empty list.         *)
C7_RecentFailureIsReported ==
    (op = "recent_chatroom_list" /\ dbRaised) => outcome = "raised"

(* C8: all_chat_room_list with page <= 0 or page_size <= 0 is rejected     *)
(* with a validation error before any query is issued.                     *)
C8_InvalidPagingRejected ==
    (op = "all_chat_room_list" /\ ~ValidPaging) =>
        /\ outcome = "raised"
        /\ error = "validation_error"
        /\ queries = 0

(* C9: for page >= 1, page_size >= 1 and a working data store the call     *)
(* returns the matching rooms at positions (page-1)*page_size+1 ..         *)
(* page*page_size of the descending id order, max(0, min(page_size,        *)
(* total_count - (page-1)*page_size)) of them, with total_count,           *)
(* total_pages, page and page_size reported whether or not the page is     *)
(* past the last one.                                                      *)
C9_PageContents ==
    (op = "all_chat_room_list" /\ ValidPaging /\ ~dbRaised) =>
        LET M == ListMatches(args.uid, args.name)
            count == Cardinality(M)
            before == (args.page - 1) * args.page_size
        IN /\ outcome = "ok"
           /\ Len(ret.list) = Max(0, Min(args.page_size, count - before))
           /\ \A i \in DOMAIN ret.list :
                 /\ ret.list[i].chatroom_id \in M
                 /\ Cardinality({m \in M : m > ret.list[i].chatroom_id}) =
                        before + i - 1
           /\ ret.total_count = count
           /\ ret.total_pages = (count + args.page_size - 1) \div args.page_size
           /\ ret.page = args.page
           /\ ret.page_size = args.page_size

(* A second page came back with a room on it. *)
C9_Witness ==
    /\ op = "all_chat_room_list" /\ outcome = "ok"
    /\ args.page = 2 /\ args.page_size = 1
    /\ ret.total_count = 2 /\ Len(ret.list) = 1

(* C10: each agent_list has one entry per link of the room with an agent   *)
(* id above zero, and as many of its entries are the absent value as there *)
(* are such links whose agent id matches no agent row.                     *)
C10_OneEntryPerPositiveLink ==
    (op = "all_chat_room_list" /\ outcome = "ok") =>
        \A i \in DOMAIN ret.list :
            LET P == {l \in DOMAIN chatroom_agent_relation :
                        /\ chatroom_agent_relation[l].chatroom_id = ret.list[i].chatroom_id
                        /\ chatroom_agent_relation[l].agent_id > 0}
                missing == {l \in P : chatroom_agent_relation[l].agent_id \notin DOMAIN agents}
                absent == {k \in DOMAIN ret.list[i].agent_list :
                              ret.list[i].agent_list[k] = None}
            IN /\ Len(ret.list[i].agent_list) = Cardinality(P)
               /\ Cardinality(absent) = Cardinality(missing)

(* A returned room has a link to an agent id that no agent row has, and    *)
(* its agent_list holds the absent value.                                  *)
C10_Witness ==
    /\ op = "all_chat_room_list" /\ outcome = "ok"
    /\ \E i \in DOMAIN ret.list :
        /\ \E k \in DOMAIN ret.list[i].agent_list : ret.list[i].agent_list[k] = None
        /\ \E l \in DOMAIN chatroom_agent_relation :
            /\ chatroom_agent_relation[l].chatroom_id = ret.list[i].chatroom_id
            /\ chatroom_agent_relation[l].agent_id > 0
            /\ chatroom_agent_relation[l].agent_id \notin DOMAIN agents
====
